---- MODULE Spec2Model ----
(***************************************************************************)
(* A model of src/action.ts of jest-github-action: the report rendering    *)
(* functions (HTML tables with a character budget, left/right truncation,  *)
(* grouping of coverage files by directory, annotation extraction) and the *)
(* orchestration of run() with its GitHub API calls.                       *)
(*                                                                         *)
(* JavaScript strings are TLA+ strings; Len, \o and SubSeq are the         *)
(* String.length, concatenation and substring of the source.               *)
(***************************************************************************)
EXTENDS Integers, Sequences, FiniteSets, TLC

VARIABLES pc, input, result, env, failed, log, faults, prComments, inflight

vars == <<pc, input, result, env, failed, log, faults, prComments, inflight>>

None == "none"

(***************************************************************************)
(* Bounds of the explored inputs.                                          *)
(***************************************************************************)
MaxRows == 3
MaxLimit == 260
MaxAsserts == 3
MaxPad == 2
MaxFiles == 3
MaxPrior == 2
ManyFiles == 240

(***************************************************************************)
(* Program constants.                                                      *)
(***************************************************************************)
CHAR_LIMIT == 60000
DIR_LABEL_LEN == 50
PER_PAGE == 100
COVERAGE_HEADER == "# :open_umbrella: Code Coverage"

(***************************************************************************)
(* Generic helpers.                                                        *)
(***************************************************************************)
Max(a, b) == IF a > b THEN a ELSE b
Min(a, b) == IF a < b THEN a ELSE b

RECURSIVE Repeat(_, _)
Repeat(s, n) ==
  IF n <= 0 THEN ""
  ELSE IF n % 2 = 0 THEN LET h == Repeat(s, n \div 2) IN h \o h
  ELSE s \o Repeat(s, n - 1)

RECURSIVE SeqsUpTo(_, _)
SeqsUpTo(S, n) ==
  IF n = 0 THEN {<<>>}
  ELSE LET shorter == SeqsUpTo(S, n - 1)
       IN shorter \cup {Append(q, x) : q \in {r \in shorter : Len(r) = n - 1}, x \in S}

(***************************************************************************)
(* A character limit is either Infinity or a finite number of characters.  *)
(***************************************************************************)
Infinity == [finite |-> FALSE, n |-> 0]
Finite(n) == [finite |-> TRUE, n |-> n]

\* Fits with < in place of <=
FitsStrict(charCount, charLimit) ==
  \/ ~charLimit.finite
  \/ charCount < charLimit.n

\* charCount <= charLimit (line 211)
Fits(charCount, charLimit) ==
  \/ ~charLimit.finite
  \/ charCount <= charLimit.n

(***************************************************************************)
(* toHTMLTable / toHTMLTableRow                                            *)
(***************************************************************************)
\* the two formatCellCB callbacks of toHTMLTable; i is the 0-based index
FormatCell(kind, cell, i) ==
  IF kind = "th" THEN "<th>" \o cell \o "</th>"
  ELSE "<td" \o (IF i > 0 THEN " nowrap=\"nowrap\" align=\"right\"" ELSE "")
            \o ">" \o cell \o "</td>"

RECURSIVE JoinCells(_, _, _)
JoinCells(row, kind, k) ==
  IF k > Len(row) THEN ""
  ELSE FormatCell(kind, row[k], k - 1) \o JoinCells(row, kind, k + 1)

RowTag(row, kind) == "<tr>" \o JoinCells(row, kind, 1) \o "</tr>"

\* ["truncated..."].concat(Array(Math.max((rows[0] ?? []).length - 1, 0)).fill(""))
DummyRow(rows) ==
  <<"truncated...">> \o
  [k \in 1..Max((IF Len(rows) > 0 THEN Len(rows[1]) ELSE 0) - 1, 0) |-> ""]

\* the rows.map callback applied to rows[lo..hi] in order, starting with
\* the captured variables charCount and truncated as given: the joined
\* output and the two variables afterwards
RECURSIVE MapRows(_, _, _, _, _, _, _)
MapRows(rows, kind, charLimit, lo, hi, charCount, truncated) ==
  IF lo > hi
  THEN [html |-> "", charCount |-> charCount, truncated |-> truncated]
  ELSE IF lo = hi
  THEN LET rowTag == RowTag(rows[lo], kind)
           count == charCount + Len(rowTag)
       IN IF Fits(count, charLimit)
          THEN [html |-> rowTag, charCount |-> count, truncated |-> truncated]
          ELSE IF truncated
          THEN [html |-> "", charCount |-> count, truncated |-> truncated]
          ELSE [html |-> RowTag(DummyRow(rows), kind), charCount |-> count,
                truncated |-> TRUE]
  ELSE LET mid == (lo + hi) \div 2
           first == MapRows(rows, kind, charLimit, lo, mid, charCount, truncated)
           rest == MapRows(rows, kind, charLimit, mid + 1, hi,
                           first.charCount, first.truncated)
       IN [html |-> first.html \o rest.html, charCount |-> rest.charCount,
           truncated |-> rest.truncated]

toHTMLTableRow(rows, kind, wrapperElement, charLimit) ==
  LET openingTag == "<" \o wrapperElement \o ">"
      closingTag == "</" \o wrapperElement \o ">"
  IN openingTag
       \o MapRows(rows, kind, charLimit, 1, Len(rows),
                  Len(openingTag) + Len(closingTag), FALSE).html
       \o closingTag

toHTMLTable(headers, rows, charLimit) ==
  LET openingTag == "<table width=\"100%\">"
      closingTag == "</table>"
      headerHtml == toHTMLTableRow(<<headers>>, "th", "thead", Infinity)
      remainingChars ==
        IF ~charLimit.finite THEN Infinity
        ELSE Finite(charLimit.n - (Len(openingTag) + Len(closingTag) + Len(headerHtml)))
      bodyHtml == toHTMLTableRow(rows, "td", "tbody", remainingChars)
  IN openingTag \o headerHtml \o bodyHtml \o closingTag

(***************************************************************************)
(* Specification of the table renderer: the inputs are drawn from bounded  *)
(* sets and the two functions are applied to them.                         *)
(***************************************************************************)
RowPool == {<<"a">>, <<"bb", "c">>, <<"dddddddddddd">>}
HeaderPool == {<<"File">>, <<"File", "% Stmts">>}
LimitPool == {Infinity} \cup {Finite(n) : n \in 0..MaxLimit}

Idle ==
  /\ env = None
  /\ failed = FALSE
  /\ log = <<>>
  /\ faults = {}
  /\ prComments = <<>>
  /\ inflight = {}

RunVars == <<env, failed, log, faults, prComments, inflight>>

InitTable ==
  /\ pc = "start"
  /\ input \in [headers : HeaderPool, rows : SeqsUpTo(RowPool, MaxRows), limit : LimitPool]
  /\ result = None
  /\ Idle

RenderRows ==
  /\ pc = "start"
  /\ pc' = "rows"
  /\ result' = toHTMLTableRow(input.rows, "td", "tbody", input.limit)
  /\ UNCHANGED <<input, RunVars>>

RenderTable ==
  /\ pc = "start"
  /\ pc' = "table"
  /\ result' = toHTMLTable(input.headers, input.rows, input.limit)
  /\ UNCHANGED <<input, RunVars>>

NextTable == RenderRows \/ RenderTable

SpecTable == InitTable /\ [][NextTable]_vars

(***************************************************************************)
(* Claims about the table renderer.                                        *)
(***************************************************************************)
RECURSIVE ConcatRowTags(_, _)
ConcatRowTags(rows, k) ==
  IF k = 0 THEN "" ELSE ConcatRowTags(rows, k - 1) \o RowTag(rows[k], "td")

\* rendered size of the wrapper tags plus the first k rows
CumulativeSize(rows, k) == Len("<tbody>") + Len("</tbody>") + Len(ConcatRowTags(rows, k))

\* the length of the longest prefix whose cumulative size stays within the limit
LongestPrefix(rows, limit) ==
  CHOOSE k \in 0..Len(rows) :
    /\ \A j \in 1..k : ~limit.finite \/ CumulativeSize(rows, j) <= limit.n
    /\ k = Len(rows) \/ (limit.finite /\ CumulativeSize(rows, k + 1) > limit.n)

\* one row: first cell "truncated...", then empty cells, n cells in all
PlaceholderRow(n) ==
  "<tr><td>truncated...</td>"
    \o Repeat("<td nowrap=\"nowrap\" align=\"right\"></td>", n - 1) \o "</tr>"

ExpectedRows(rows, limit) ==
  LET k == LongestPrefix(rows, limit)
  IN "<tbody>" \o ConcatRowTags(rows, k)
       \o (IF k = Len(rows) THEN "" ELSE PlaceholderRow(Len(rows[1])))
       \o "</tbody>"

TableBase(headers) ==
  Len("<table width=\"100%\">") + Len("</table>")
    + Len(toHTMLTableRow(<<headers>>, "th", "thead", Infinity))

\* C1 (as claimed): for every finite limit L that is at least the cost of the
\* table tags plus the header row, toHTMLTable(headers, rows, L) is at most
\* L characters long.
C1_TableWithinLimit ==
  (pc = "table" /\ input.limit.finite /\ input.limit.n >= TableBase(input.headers))
    => Len(result) <= input.limit.n

\* C1, the case of the data rows alone: even when the limit leaves room for
\* the <tbody> wrapper, a table whose rows were truncated stays within L.
C1_TruncatedTableWithinLimit ==
  (/\ pc = "table"
   /\ input.limit.finite
   /\ input.limit.n >= TableBase(input.headers) + Len("<tbody></tbody>"))
    => Len(result) <= input.limit.n

\* C1, the detail table of getCoverageTable: it is never longer than
\* CHAR_LIMIT characters.
C1_DetailTableWithinCharLimit ==
  (/\ pc = "coverage"
   /\ input.coverageMap.present
   /\ Len(input.coverageMap.files) > 0
   /\ ~result.threw)
    => Len(toHTMLTable(<<"File", "% Stmts", "% Branch", "% Funcs", "% Lines">>,
                       result.rows, Finite(CHAR_LIMIT))) <= CHAR_LIMIT

\* C2: toHTMLTableRow emits exactly the longest prefix of the rows whose
\* cumulative rendered size (starting from the wrapper tag cost) stays within
\* the limit, verbatim and in order; nothing more when that prefix is all
\* rows or the limit is Infinity; otherwise exactly one placeholder row with
\* the column count of the first row, and no later row.
C2_LongestPrefixThenOnePlaceholder ==
  pc = "rows" => result = ExpectedRows(input.rows, input.limit)

\* C2's case: rows were truncated after a non-empty prefix although a later
\* row is small enough to have fitted after that prefix.
C2_Witness ==
  /\ pc = "rows"
  /\ input.limit.finite
  /\ LET k == LongestPrefix(input.rows, input.limit)
     IN /\ k >= 1
        /\ k < Len(input.rows)
        /\ \E j \in (k + 2)..Len(input.rows) :
             CumulativeSize(input.rows, k) + Len(RowTag(input.rows[j], "td"))
               <= input.limit.n

(***************************************************************************)
(* truncateLeft / truncateRight                                            *)
(***************************************************************************)
\* if (len > str.length) return str   (lines 240 and 250)
KeepsWhole(str, len) == len > Len(str)

truncateLeft(str, len) ==
  IF KeepsWhole(str, len) THEN str
  ELSE LET subStr == SubSeq(str, Len(str) - len + 1, Len(str))
       IN "..." \o subStr

truncateRight(str, len) ==
  IF KeepsWhole(str, len) THEN str
  ELSE LET subStr == SubSeq(str, 1, len)
       IN subStr \o "..."

(***************************************************************************)
(* getAnnotations / getCheckPayload                                        *)
(***************************************************************************)
\* the 1-based position of the first occurrence of pat in s, 0 when absent
IndexOf(s, pat) ==
  LET hits == {k \in 1..(Len(s) - Len(pat) + 1) : SubSeq(s, k, k + Len(pat) - 1) = pat}
  IN IF hits = {} THEN 0 ELSE CHOOSE k \in hits : \A h \in hits : k <= h

\* String.prototype.replace with a string pattern: the first occurrence only
ReplaceFirst(s, pat, rep) ==
  LET k == IndexOf(s, pat)
  IN IF k = 0 THEN s
     ELSE SubSeq(s, 1, k - 1) \o rep \o SubSeq(s, k + Len(pat), Len(s))

RECURSIVE Join(_, _)
Join(strs, sep) ==
  IF Len(strs) = 0 THEN ""
  ELSE IF Len(strs) = 1 THEN strs[1]
  ELSE strs[1] \o sep \o Join(Tail(strs), sep)

\* lodash filter(collection, ["status", "failed"])
RECURSIVE FilterStatus(_, _)
FilterStatus(assertions, status) ==
  IF Len(assertions) = 0 THEN <<>>
  ELSE (IF Head(assertions).status = status THEN <<Head(assertions)>> ELSE <<>>)
         \o FilterStatus(Tail(assertions), status)

\* assertion.location?.line ?? 0; an optional location is a sequence of
\* length 0 or 1
LocationLine(assertion) ==
  IF Len(assertion.location) = 0 THEN 0 ELSE assertion.location[1]

\* the field message (failureMessages joined and passed through the
\* strip-ansi package) is not part of the annotation modelled here
Annotation(suite, assertion, cwd) ==
  [path |-> ReplaceFirst(suite.name, cwd, ""),
   start_line |-> LocationLine(assertion),
   end_line |-> LocationLine(assertion),
   annotation_level |-> "failure",
   title |-> Join(Append(assertion.ancestorTitles, assertion.title), " > ")]

SuiteAnnotations(suite, cwd) ==
  LET failures == FilterStatus(suite.assertionResults, "failed")
  IN [k \in 1..Len(failures) |-> Annotation(suite, failures[k], cwd)]

\* lodash flatMap over results.testResults
RECURSIVE FlatMapSuites(_, _)
FlatMapSuites(testResults, cwd) ==
  IF Len(testResults) = 0 THEN <<>>
  ELSE SuiteAnnotations(Head(testResults), cwd) \o FlatMapSuites(Tail(testResults), cwd)

\* SkipsAnnotations without the early return
SkipsAnnotationsNever(results) == FALSE

\* if (results.success) return []   (line 417)
SkipsAnnotations(results) == results.success

getAnnotations(results, cwd) ==
  IF SkipsAnnotations(results) THEN <<>>
  ELSE FlatMapSuites(results.testResults, cwd)

CheckText(std) ==
  (IF std.out # "" THEN std.out ELSE "")
    \o (IF std.err # "" THEN "\n\n" \o std.err ELSE "")

getCheckPayload(results, cwd, std) ==
  [name |-> "jest-github-action",
   status |-> "completed",
   conclusion |-> IF results.success THEN "success" ELSE "failure",
   output |->
     [title |-> IF results.success THEN "Jest tests passed" ELSE "Jest tests failed",
      text |-> truncateRight(CheckText(std), CHAR_LIMIT),
      summary |->
        IF results.success
        THEN ToString(results.numPassedTests) \o " tests passing in "
               \o ToString(results.numPassedTestSuites) \o " suite"
               \o (IF results.numPassedTestSuites > 1 THEN "s" ELSE "") \o "."
        ELSE "Failed tests: " \o ToString(results.numFailedTests) \o "/"
               \o ToString(results.numTotalTests) \o ". Failed suites: "
               \o ToString(results.numFailedTests) \o "/"
               \o ToString(results.numTotalTestSuites) \o ".",
      annotations |-> getAnnotations(results, cwd)]]

(***************************************************************************)
(* Specification of the check payload: test results and captured output    *)
(* are drawn from bounded sets and getCheckPayload is applied to them.     *)
(***************************************************************************)
CWD == "/w/"

AssertionPool ==
  {[status |-> "failed", location |-> <<12>>, ancestorTitles |-> <<"Suite">>,
    title |-> "does X"],
   [status |-> "failed", location |-> <<>>, ancestorTitles |-> <<>>,
    title |-> "does Y"],
   [status |-> "passed", location |-> <<7>>, ancestorTitles |-> <<"Suite">>,
    title |-> "does Z"],
   [status |-> "pending", location |-> <<>>, ancestorTitles |-> <<>>,
    title |-> "does W"]}

SuiteName(k) == CWD \o "s" \o ToString(k) \o ".test.js"

\* the assertions flat[1..n] split into suites after the positions in cuts
Suites(flat, cuts) ==
  LET starts == {1} \cup {c + 1 : c \in cuts}
      Rank(p) == Cardinality({q \in starts : q <= p})
      StartOf(k) == CHOOSE p \in starts : Rank(p) = k
      EndOf(k) == IF k = Cardinality(starts) THEN Len(flat) ELSE StartOf(k + 1) - 1
  IN IF Len(flat) = 0 THEN <<>>
     ELSE [k \in 1..Cardinality(starts) |->
             [name |-> SuiteName(k),
              assertionResults |-> SubSeq(flat, StartOf(k), EndOf(k))]]

\* every way to run up to n assertions of the pool in consecutive suites,
\* with or without a suite that holds no assertion at the end
TestResultsPool(n) ==
  UNION {{Suites(flat, cuts) \o tail :
            cuts \in SUBSET (1..(Len(flat) - 1)),
            tail \in {<<>>, <<[name |-> SuiteName(0), assertionResults |-> <<>>]>>}} :
         flat \in SeqsUpTo(AssertionPool, n)}

RECURSIVE CountStatus(_, _)
CountStatus(testResults, status) ==
  IF Len(testResults) = 0 THEN 0
  ELSE Len(FilterStatus(Head(testResults).assertionResults, status))
         + CountStatus(Tail(testResults), status)

RECURSIVE CountAssertions(_)
CountAssertions(testResults) ==
  IF Len(testResults) = 0 THEN 0
  ELSE Len(Head(testResults).assertionResults) + CountAssertions(Tail(testResults))

\* the counters jest writes next to testResults
Results(success, testResults) ==
  [success |-> success,
   numPassedTests |-> CountStatus(testResults, "passed"),
   numFailedTests |-> CountStatus(testResults, "failed"),
   numTotalTests |-> CountAssertions(testResults),
   numPassedTestSuites |->
     Cardinality({k \in 1..Len(testResults) :
                    FilterStatus(testResults[k].assertionResults, "failed") = <<>>}),
   numTotalTestSuites |-> Len(testResults),
   testResults |-> testResults]

ResultsPool(n) == {Results(b, t) : b \in BOOLEAN, t \in TestResultsPool(n)}

TextLengths(pad) ==
  (0..pad) \cup {CHAR_LIMIT - k : k \in 0..pad} \cup {CHAR_LIMIT + k : k \in 0..pad}

StdPool(pad) == {[out |-> Repeat("o", n), err |-> Repeat("e", m)] :
                   n \in TextLengths(pad), m \in TextLengths(pad)}

InitCheck ==
  /\ pc = "start"
  /\ \/ input \in [results : ResultsPool(MaxAsserts), std : {[out |-> "PASS", err |-> ""]}]
     \/ input \in [results : {Results(TRUE, <<>>)}, std : StdPool(MaxPad)]
  /\ result = None
  /\ Idle

BuildCheckPayload ==
  /\ pc = "start"
  /\ pc' = "payload"
  /\ result' = getCheckPayload(input.results, CWD, input.std)
  /\ UNCHANGED <<input, RunVars>>

NextCheck == BuildCheckPayload

SpecCheck == InitCheck /\ [][NextCheck]_vars

(***************************************************************************)
(* Claims about the check payload.                                         *)
(***************************************************************************)
\* the failed assertions of the first k suites, as <<suite index, assertion
\* index>> pairs in suite order, then assertion order within the suite
RECURSIVE FailedPositions(_, _)
FailedPositions(testResults, k) ==
  IF k = 0 THEN <<>>
  ELSE FailedPositions(testResults, k - 1) \o
       LET as == testResults[k].assertionResults
           idx == {j \in 1..Len(as) : as[j].status = "failed"}
           Rank(j) == Cardinality({h \in idx : h <= j})
       IN [r \in 1..Cardinality(idx) |-> <<k, CHOOSE j \in idx : Rank(j) = r>>]

\* C3: getAnnotations returns the empty sequence when results.success is
\* true; otherwise exactly one annotation per assertion whose status is
\* "failed" and none for any other status, in suite order and then assertion
\* order, each with start_line = end_line = the reported line, or 0 when the
\* location is absent.
C3_AnnotationsOfFailedAssertions ==
  pc = "payload" =>
    LET anns == result.output.annotations
        tr == input.results.testResults
        pos == FailedPositions(tr, Len(tr))
    IN IF input.results.success THEN anns = <<>>
       ELSE /\ Len(anns) = Len(pos)
            /\ \A r \in 1..Len(pos) :
                 LET a == tr[pos[r][1]].assertionResults[pos[r][2]]
                     line == IF a.location = <<>> THEN 0 ELSE a.location[1]
                 IN /\ anns[r].start_line = line
                    /\ anns[r].end_line = line
                    /\ anns[r].title = Join(Append(a.ancestorTitles, a.title), " > ")
                    /\ CWD \o anns[r].path = tr[pos[r][1]].name

\* C3's cases: a failing run with failed assertions in two suites, one with
\* and one without a location, next to assertions of other statuses ...
C3_Witness ==
  /\ pc = "payload"
  /\ ~input.results.success
  /\ Len(result.output.annotations) >= 2
  /\ \E r \in 1..Len(result.output.annotations) : result.output.annotations[r].start_line = 0
  /\ \E r \in 1..Len(result.output.annotations) : result.output.annotations[r].start_line = 12
  /\ input.results.numTotalTests > input.results.numFailedTests
  /\ Len(input.results.testResults) >= 2
  /\ \A k \in 1..(Len(input.results.testResults) - 1) :
       CountStatus(<<input.results.testResults[k]>>, "failed") >= 1

\* C4 (as claimed): output.text is never longer than CHAR_LIMIT characters,
\* and whenever stdout plus (when non-empty) a blank line plus stderr is at
\* most CHAR_LIMIT characters long it is returned unchanged.
C4_TextWithinLimit ==
  pc = "payload" =>
    LET whole == input.std.out
                   \o (IF input.std.err = "" THEN "" ELSE "\n\n" \o input.std.err)
    IN /\ Len(result.output.text) <= CHAR_LIMIT
       /\ Len(whole) <= CHAR_LIMIT => result.output.text = whole

(***************************************************************************)
(* path.relative / path.dirname / path.basename on the POSIX paths of      *)
(* files below rootPath.                                                   *)
(***************************************************************************)
rootPath == "/w"

LastIndexOf(s, c) ==
  LET hits == {k \in 1..Len(s) : SubSeq(s, k, k) = c}
  IN IF hits = {} THEN 0 ELSE CHOOSE k \in hits : \A h \in hits : h <= k

Relative(from, to) == SubSeq(to, Len(from) + 2, Len(to))

Dirname(p) ==
  LET k == LastIndexOf(p, "/")
  IN IF k = 0 THEN "." ELSE IF k = 1 THEN "/" ELSE SubSeq(p, 1, k - 1)

Basename(p) == SubSeq(p, LastIndexOf(p, "/") + 1, Len(p))

(***************************************************************************)
(* A JavaScript object used as a dictionary: its own string keys in        *)
(* creation order. Object.entries lists the keys that are array indices    *)
(* first, in ascending numeric order, then the other keys in creation      *)
(* order; the in operator also finds the keys of Object.prototype.         *)
(***************************************************************************)
Digits == <<"0", "1", "2", "3", "4", "5", "6", "7", "8", "9">>

IsDigit(c) == \E d \in 1..Len(Digits) : Digits[d] = c

DigitValue(c) == (CHOOSE d \in 1..Len(Digits) : Digits[d] = c) - 1

\* a <= b for strings of digits of the same length
RECURSIVE DigitsLeq(_, _, _)
DigitsLeq(a, b, k) ==
  IF k > Len(a) THEN TRUE
  ELSE IF DigitValue(SubSeq(a, k, k)) < DigitValue(SubSeq(b, k, k)) THEN TRUE
  ELSE IF DigitValue(SubSeq(a, k, k)) > DigitValue(SubSeq(b, k, k)) THEN FALSE
  ELSE DigitsLeq(a, b, k + 1)

\* numeric a <= b for canonical numeric strings (no leading zero)
NumericLeq(a, b) ==
  \/ Len(a) < Len(b)
  \/ Len(a) = Len(b) /\ DigitsLeq(a, b, 1)

\* the largest array index, 2^32 - 2
MAX_ARRAY_INDEX == "4294967294"

\* a canonical numeric string of an integer in 0 .. 2^32 - 2
IsArrayIndex(key) ==
  /\ Len(key) >= 1
  /\ \A k \in 1..Len(key) : IsDigit(SubSeq(key, k, k))
  /\ Len(key) > 1 => SubSeq(key, 1, 1) # "0"
  /\ NumericLeq(key, MAX_ARRAY_INDEX)

ObjectPrototypeKeys ==
  {"constructor", "hasOwnProperty", "isPrototypeOf", "propertyIsEnumerable",
   "toLocaleString", "toString", "valueOf", "__proto__", "__defineGetter__",
   "__defineSetter__", "__lookupGetter__", "__lookupSetter__"}

OwnKeys(obj) == {obj[k].key : k \in 1..Len(obj)}

In(key, obj) == key \in OwnKeys(obj) \/ key \in ObjectPrototypeKeys

ObjectEntries(obj) ==
  LET idx == {k \in 1..Len(obj) : IsArrayIndex(obj[k].key)}
      rest == {k \in 1..Len(obj) : ~IsArrayIndex(obj[k].key)}
      IdxRank(k) == Cardinality({h \in idx : NumericLeq(obj[h].key, obj[k].key)})
      RestRank(k) == Cardinality({h \in rest : h <= k})
  IN [r \in 1..Len(obj) |->
        IF r <= Cardinality(idx)
        THEN obj[CHOOSE k \in idx : IdxRank(k) = r]
        ELSE obj[CHOOSE k \in rest : RestRank(k) = r - Cardinality(idx)]]

(***************************************************************************)
(* formatIfPoor / summaryToRow / groupByPath / getCoverageTable            *)
(***************************************************************************)
formatIfPoor(number) ==
  IF number > 80 THEN ToString(number) \o " :green_circle:"
  ELSE IF number > 65 THEN ToString(number) \o " :yellow_circle:"
  ELSE IF number > 50 THEN ToString(number) \o " :orange_circle:"
  ELSE ToString(number) \o " :red_circle:"

summaryToRow(f) ==
  <<formatIfPoor(f.statements), formatIfPoor(f.branches),
    formatIfPoor(f.functions), formatIfPoor(f.lines)>>

parseFile(entry) ==
  LET relative == Relative(rootPath, entry.absolute)
  IN [relative |-> relative,
      fileName |-> Basename(relative),
      path |-> Dirname(relative),
      coverage |-> entry.summary]

\* dirs is [threw |-> FALSE, obj |-> entries] until dirs[file.path].push
\* raises a TypeError: the value found under an inherited key has no push
groupByPath(dirs, file) ==
  IF dirs.threw THEN dirs
  ELSE IF ~In(file.path, dirs.obj)
  THEN [dirs EXCEPT !.obj = Append(@, [key |-> file.path, value |-> <<file>>])]
  ELSE IF file.path \in OwnKeys(dirs.obj)
  THEN [dirs EXCEPT !.obj =
          [k \in 1..Len(@) |->
             IF @[k].key = file.path
             THEN [@[k] EXCEPT !.value = Append(@, file)]
             ELSE @[k]]]
  ELSE [dirs EXCEPT !.threw = TRUE]

\* entries[lo..hi].map(parseFile).reduce(groupByPath, dirs)
RECURSIVE Reduce(_, _, _, _)
Reduce(entries, lo, hi, dirs) ==
  IF lo > hi THEN dirs
  ELSE IF lo = hi THEN groupByPath(dirs, parseFile(entries[lo]))
  ELSE LET mid == (lo + hi) \div 2
           first == Reduce(entries, lo, mid, dirs)
       IN IF first.threw THEN first ELSE Reduce(entries, mid + 1, hi, first)

\* `<b>${truncateLeft(dir, 50)}</b>` and the four empty metric cells
DirectoryRow(dir) ==
  <<"<b>" \o truncateLeft(dir, DIR_LABEL_LEN) \o "</b>", "", "", "", "">>

FileRow(file) == <<"<code>" \o file.fileName \o "</code>">> \o summaryToRow(file.coverage)

GroupRows(group) ==
  <<DirectoryRow(group.key)>> \o [k \in 1..Len(group.value) |-> FileRow(group.value[k])]

RECURSIVE Flat(_, _)
Flat(groups, k) ==
  IF k = 0 THEN <<>> ELSE Flat(groups, k - 1) \o GroupRows(groups[k])

\* Object.entries(files).map(...).flat()
CoverageRows(dirs) ==
  LET groups == ObjectEntries(dirs.obj)
  IN Flat(groups, Len(groups))

\* results.coverageMap is [present |-> FALSE] when the results carry none;
\* the value is [threw, value, groups, rows]: value is the returned string,
\* groups and rows the locals of lines 286 and 287
getCoverageTable(results, cwd) ==
  IF ~results.coverageMap.present
  THEN [threw |-> FALSE, value |-> "", groups |-> <<>>, rows |-> <<>>]
  ELSE IF Len(results.coverageMap.files) = 0
  THEN [threw |-> FALSE, value |-> "", groups |-> <<>>, rows |-> <<>>]
  ELSE
    LET headers == <<"% Stmts", "% Branch", "% Funcs", "% Lines">>
        summary == summaryToRow(results.coverageMap.total)
        summaryTable == toHTMLTable(headers, <<summary>>, Infinity)
        fullHeaders == <<"File">> \o headers
        files == Reduce(results.coverageMap.files, 1, Len(results.coverageMap.files),
                       [threw |-> FALSE, obj |-> <<>>])
        rows == CoverageRows(files)
        fullTable == toHTMLTable(fullHeaders, rows, Finite(CHAR_LIMIT))
        lines == <<COVERAGE_HEADER, summaryTable, "", "<details>",
                   "<summary>Click to expand</summary>\n", fullTable, "</details>">>
    IN IF files.threw
       THEN [threw |-> TRUE, value |-> "", groups |-> <<>>, rows |-> <<>>]
       ELSE [threw |-> FALSE, value |-> Join(lines, "\n"),
             groups |-> ObjectEntries(files.obj), rows |-> rows]

(***************************************************************************)
(* Specification of the coverage table: coverage maps are drawn from a     *)
(* bounded set of files and getCoverageTable is applied to them.           *)
(***************************************************************************)
Pct(n) == [statements |-> n, branches |-> n, functions |-> n, lines |-> n]

DirPool ==
  {"src", "src/lib", "7", "10",
   Repeat("d", DIR_LABEL_LEN - 1), Repeat("e", DIR_LABEL_LEN),
   Repeat("f", DIR_LABEL_LEN + 1)}

FilePool ==
  {[absolute |-> rootPath \o "/" \o d \o "/a.ts", summary |-> Pct(90)] : d \in DirPool}
    \cup {[absolute |-> rootPath \o "/" \o d \o "/b.ts", summary |-> Pct(40)] :
            d \in {"src", "7"}}
    \cup {[absolute |-> rootPath \o "/index.ts", summary |-> Pct(66)]}

\* a coverage map holds each file once
CoverageMapPool(n) ==
  {[present |-> TRUE, files |-> fs, total |-> Pct(70)] :
     fs \in {q \in SeqsUpTo(FilePool, n) :
               \A i, j \in 1..Len(q) : i # j => q[i] # q[j]}}
    \cup {[present |-> FALSE]}

\* a large project: n files in one directory
LargeCoverageMap(n) ==
  [present |-> TRUE, total |-> Pct(90),
   files |-> [k \in 1..n |->
                [absolute |-> rootPath \o "/src/f" \o ToString(k) \o ".ts",
                 summary |-> Pct(90)]]]

InitCoverage ==
  /\ pc = "start"
  /\ \/ input \in [coverageMap : CoverageMapPool(MaxFiles)]
     \/ input \in [coverageMap : {LargeCoverageMap(n) : n \in (ManyFiles - MaxFiles)..ManyFiles}]
  /\ result = None
  /\ Idle

BuildCoverageTable ==
  /\ pc = "start"
  /\ pc' = "coverage"
  /\ result' = getCoverageTable(input, rootPath \o "/")
  /\ UNCHANGED <<input, RunVars>>

NextCoverage == BuildCoverageTable

SpecCoverage == InitCoverage /\ [][NextCoverage]_vars

(***************************************************************************)
(* Claims about the coverage table.                                        *)
(***************************************************************************)
InputFiles == [k \in 1..Len(input.coverageMap.files) |-> parseFile(input.coverageMap.files[k])]

\* the position in the coverage map at which each directory is first seen
FirstSeen(files) ==
  {k \in 1..Len(files) : \A h \in 1..(k - 1) : files[h].path # files[k].path}

\* the directories in first-seen order
DirsInFirstSeenOrder(files) ==
  LET first == FirstSeen(files)
      Rank(k) == Cardinality({h \in first : h <= k})
  IN [r \in 1..Cardinality(first) |-> files[CHOOSE k \in first : Rank(k) = r].path]

\* the files of directory dir, in coverage-map order
RECURSIVE FilesOf(_, _)
FilesOf(files, dir) ==
  IF Len(files) = 0 THEN <<>>
  ELSE (IF Head(files).path = dir THEN <<Head(files)>> ELSE <<>>)
         \o FilesOf(Tail(files), dir)

Built == pc = "coverage" /\ input.coverageMap.present /\ Len(input.coverageMap.files) > 0

\* the index in rows of the header row of group g
HeaderIndex(groups, g) == Len(Flat(groups, g - 1)) + 1

\* C9 (as claimed): the label of a directory header row is the directory
\* name unchanged when it has 50 characters or fewer, and "..." followed by
\* its last 50 characters when it is longer.
C9_DirectoryLabel ==
  (Built /\ ~result.threw) =>
    \A g \in 1..Len(result.groups) :
      LET dir == result.groups[g].key
          label == result.rows[HeaderIndex(result.groups, g)][1]
      IN label = "<b>"
                   \o (IF Len(dir) <= DIR_LABEL_LEN THEN dir
                       ELSE "..." \o SubSeq(dir, Len(dir) - DIR_LABEL_LEN + 1, Len(dir)))
                   \o "</b>"

\* C10 (as claimed): the directory groups are listed in the order in which
\* each directory is first seen in the coverage map, each directory header
\* row once, immediately followed by the file rows of that directory in
\* coverage-map order, every file under the group keyed by the dirname of
\* its relative path.
C10_FirstSeenDirectoryOrder ==
  Built =>
    LET dirs == DirsInFirstSeenOrder(InputFiles)
    IN /\ ~result.threw
       /\ Len(result.groups) = Len(dirs)
       /\ \A g \in 1..Len(dirs) :
            /\ result.groups[g].key = dirs[g]
            /\ result.groups[g].value = FilesOf(InputFiles, dirs[g])
            /\ \A f \in 1..Len(result.groups[g].value) :
                 Dirname(result.groups[g].value[f].relative) = dirs[g]
            /\ LET h == HeaderIndex(result.groups, g)
                   fs == FilesOf(InputFiles, dirs[g])
               IN /\ result.rows[h] = DirectoryRow(dirs[g])
                  /\ \A f \in 1..Len(fs) : result.rows[h + f] = FileRow(fs[f])
       /\ Len(result.rows) = Len(dirs) + Len(InputFiles)

\* C10 restricted to directory names that are neither array indices nor
\* keys of Object.prototype
C10_OrdinaryDirectoryNames ==
  (/\ Built
   /\ \A k \in 1..Len(InputFiles) :
        ~IsArrayIndex(InputFiles[k].path) /\ InputFiles[k].path \notin ObjectPrototypeKeys)
    => C10_FirstSeenDirectoryOrder

(***************************************************************************)
(* run() and deletePreviousComments(): one action per stretch of code      *)
(* between two awaits. env holds what the run reads from its environment;  *)
(* failed is TRUE once core.setFailed has been called; log lists the calls *)
(* to collaborators and to getCoverageTable in the order they are made;    *)
(* faults is the set of steps that failed; prComments is the list of       *)
(* comments the pull request has when listComments is answered; inflight   *)
(* is the set of comment ids whose deleteComment request has not settled.  *)
(***************************************************************************)
BOT == "github-actions[bot]"

Call(name) == [call |-> name, id |-> 0]
DeleteCall(id) == [call |-> "deleteComment", id |-> id]

Calls(l) == {l[k].call : k \in 1..Len(l)}

\* CheckError without the call of core.setFailed
CheckErrorIgnored(wasFailed) == wasFailed

\* the .catch of checks.create (lines 73-76): the value of failed after it
CheckError(wasFailed) == TRUE

\* ShouldComment without the test of the comment
ShouldCommentAlways(comment) == TRUE

\* if (comment)   (line 81): the empty string is falsy
ShouldComment(comment) == comment # ""

\* AfterComments without the test of results.success
AfterCommentsNoSignal(wasFailed, success) == wasFailed

\* if (!results.success) core.setFailed(...)   (lines 96-98): the value of
\* failed after it
AfterComments(wasFailed, success) == wasFailed \/ ~success

\* shouldCommentCoverage(): Boolean(JSON.parse(input)); JSON.parse raises
\* a SyntaxError on the empty string
JsonParses(text) == text \in {"true", "false"}
shouldCommentCoverage == env.covInput = "true"

\* getPullId(): context.payload.pull_request?.number ?? 0
getPullId == env.pullId

\* the filter of deletePreviousComments; an optional field is a sequence
\* of length 0 or 1
StartsWith(s, prefix) == Len(s) >= Len(prefix) /\ SubSeq(s, 1, Len(prefix)) = prefix

IsPreviousCoverageComment(c) ==
  /\ Len(c.user) = 1 /\ c.user[1].login = BOT
  /\ Len(c.body) = 1 /\ StartsWith(c.body[1], COVERAGE_HEADER)

\* what listComments({per_page: 100, issue_number}) answers: the first page
ListCommentsData(comments) == SubSeq(comments, 1, Min(PER_PAGE, Len(comments)))

RECURSIVE Matching(_)
Matching(data) ==
  IF Len(data) = 0 THEN <<>>
  ELSE (IF IsPreviousCoverageComment(Head(data)) THEN <<Head(data)>> ELSE <<>>)
         \o Matching(Tail(data))

\* the inputs of a run
CoverageInputs ==
  {[present |-> FALSE],
   [present |-> TRUE, files |-> <<>>, total |-> Pct(0)],
   [present |-> TRUE, total |-> Pct(90),
    files |-> <<[absolute |-> rootPath \o "/src/a.ts", summary |-> Pct(90)]>>],
   [present |-> TRUE, total |-> Pct(90),
    files |-> <<[absolute |-> rootPath \o "/constructor/a.ts", summary |-> Pct(90)]>>]}

EnvPool ==
  [fileExists : BOOLEAN, token : BOOLEAN, covInput : {"true", "false", ""},
   pullId : {0, 5}, parses : BOOLEAN, success : BOOLEAN, coverageMap : CoverageInputs]

CommentKinds ==
  {[user |-> <<[login |-> BOT]>>, body |-> <<COVERAGE_HEADER \o "\n<table>">>],
   [user |-> <<[login |-> BOT]>>, body |-> <<>>],
   [user |-> <<[login |-> "octocat"]>>, body |-> <<COVERAGE_HEADER>>],
   [user |-> <<>>, body |-> <<"LGTM">>]}

Filler == [user |-> <<[login |-> "octocat"]>>, body |-> <<"LGTM">>]

WithIds(kinds) == [k \in 1..Len(kinds) |-> [id |-> k, user |-> kinds[k].user, body |-> kinds[k].body]]

CommentLists(prior) ==
  {WithIds(first \o [k \in 1..n |-> Filler] \o last) :
     first \in SeqsUpTo(CommentKinds, prior),
     n \in {0, PER_PAGE - 1, PER_PAGE},
     last \in SeqsUpTo(CommentKinds, 1)}

InitRun ==
  /\ pc = "start"
  /\ env \in EnvPool
  /\ failed = FALSE
  /\ log = <<>>
  /\ faults = {}
  /\ prComments = <<>>
  /\ inflight = {}
  /\ input = None
  /\ result = None

Stop(fault) ==
  /\ pc' = "done"
  /\ failed' = TRUE
  /\ faults' = faults \cup {fault}

\* lines 30-54: results file, token, getJestCommand, then exec is awaited
Start ==
  /\ pc = "start"
  /\ IF ~env.fileExists
     THEN Stop("file") /\ UNCHANGED log
     ELSE IF ~env.token
     THEN Stop("token") /\ UNCHANGED log
     ELSE IF ~JsonParses(env.covInput)
     THEN Stop("input") /\ UNCHANGED log
     ELSE /\ pc' = "exec"
          /\ log' = Append(log, Call("exec"))
          /\ UNCHANGED <<failed, faults>>
  /\ UNCHANGED <<input, result, env, prComments, inflight>>

\* lines 389-396 and 55-69: exec settles (a rejection is caught and logged
\* by execJest), the results are parsed and checks.create is called
ExecSettles ==
  /\ pc = "exec"
  /\ \E ok \in BOOLEAN :
       LET fs == IF ok THEN faults ELSE faults \cup {"exec"}
       IN IF ~env.parses
          THEN /\ pc' = "done"
               /\ failed' = TRUE
               /\ faults' = fs \cup {"parse"}
               /\ UNCHANGED log
          ELSE /\ pc' = "check"
               /\ log' = log \o <<Call("parseResults"), Call("checks.create")>>
               /\ faults' = fs
               /\ UNCHANGED failed
  /\ UNCHANGED <<input, result, env, prComments, inflight>>

\* lines 96-103, reached with f the value of failed so far
Finish(f) ==
  /\ pc' = "done"
  /\ failed' = AfterComments(f, env.success)

\* lines 70-82: checks.create settles, then the coverage comment is built
CheckSettles ==
  /\ pc = "check"
  /\ \E ok \in BOOLEAN :
       LET f == IF ok THEN failed ELSE CheckError(failed)
           fs == IF ok THEN faults ELSE faults \cup {"checks.create"}
       IN IF getPullId # 0 /\ shouldCommentCoverage
          THEN LET comment == getCoverageTable(env, rootPath \o "/")
               IN IF comment.threw
                  THEN /\ pc' = "done"
                       /\ failed' = TRUE
                       /\ faults' = fs \cup {"getCoverageTable"}
                       /\ log' = Append(log, Call("getCoverageTable"))
                  ELSE IF ShouldComment(comment.value)
                  THEN /\ pc' = "list"
                       /\ failed' = f
                       /\ faults' = fs
                       /\ log' = log \o <<Call("getCoverageTable"), Call("listComments")>>
                  ELSE /\ Finish(f)
                       /\ faults' = fs
                       /\ log' = Append(log, Call("getCoverageTable"))
          ELSE /\ Finish(f)
               /\ faults' = fs
               /\ UNCHANGED log
  /\ UNCHANGED <<input, result, env, prComments, inflight>>

\* lines 114-117 and 126-143, 83-85: listComments answers; a deleteComment
\* request is issued for every comment of the answer that passes the
\* filter, all at once; with none to delete createComment is called
ListResolves ==
  /\ pc = "list"
  /\ \E comments \in CommentLists(MaxPrior) :
       LET targets == Matching(ListCommentsData(comments))
       IN /\ prComments' = comments
          /\ inflight' = {targets[k].id : k \in 1..Len(targets)}
          /\ IF Len(targets) = 0
             THEN /\ pc' = "create"
                  /\ log' = Append(log, Call("createComment"))
             ELSE /\ pc' = "delete"
                  /\ log' = log \o [k \in 1..Len(targets) |-> DeleteCall(targets[k].id)]
  /\ UNCHANGED <<input, result, env, failed, faults>>

\* lines 118-122 and 99-102: listComments fails, the error is thrown again
\* and caught by run()
ListRejects ==
  /\ pc = "list"
  /\ Stop("listComments")
  /\ UNCHANGED <<input, result, env, log, prComments, inflight>>

\* lines 135-141 and 83-85: one deleteComment request settles; when it was
\* the last one Promise.all resolves and createComment is called
DeleteSettles ==
  /\ pc = "delete"
  /\ \E id \in inflight, ok \in BOOLEAN :
       /\ inflight' = inflight \ {id}
       /\ failed' = (failed \/ ~ok)
       /\ faults' = (IF ok THEN faults ELSE faults \cup {"deleteComment"})
       /\ IF inflight = {id}
          THEN /\ pc' = "create"
               /\ log' = Append(log, Call("createComment"))
          ELSE UNCHANGED <<pc, log>>
  /\ UNCHANGED <<input, result, env, prComments>>

\* lines 86-98: createComment settles
CreateSettles ==
  /\ pc = "create"
  /\ \E ok \in BOOLEAN :
       /\ Finish(failed \/ ~ok)
       /\ faults' = (IF ok THEN faults ELSE faults \cup {"createComment"})
  /\ UNCHANGED <<input, result, env, log, prComments, inflight>>

NextRun ==
  \/ Start
  \/ ExecSettles
  \/ CheckSettles
  \/ ListResolves
  \/ ListRejects
  \/ DeleteSettles
  \/ CreateSettles

SpecRun == InitRun /\ [][NextRun]_vars

(***************************************************************************)
(* Claims about run().                                                     *)
(***************************************************************************)
Position(l, name) == CHOOSE k \in 1..Len(l) : l[k].call = name /\ \A h \in 1..(k - 1) : l[h].call # name

CommentWork == {"getCoverageTable", "listComments", "deleteComment", "createComment"}

Network == {"checks.create", "listComments", "deleteComment", "createComment"}

Parsed == "parseResults" \in Calls(log)

MapMissing == ~env.coverageMap.present \/ Len(env.coverageMap.files) = 0

DeletedIds == {log[k].id : k \in {h \in 1..Len(log) : log[h].call = "deleteComment"}}

\* C5: once the results are parsed, checks.create is called before any
\* coverage-table building or comment work starts, and a run whose
\* results.success is false ends marked failed on every path.
C5_CheckFirstAndFailurePropagated ==
  /\ \A k \in 1..Len(log) :
       log[k].call \in CommentWork =>
         \E h \in 1..(k - 1) : log[h].call = "checks.create"
  /\ (pc # "start" /\ pc # "exec" /\ Parsed) => "checks.create" \in Calls(log)
  /\ (pc = "done" /\ Parsed /\ ~env.success) => failed

\* C5's case: a failing run whose check was created and whose coverage
\* table could not be built ends marked failed.
C5_Witness ==
  /\ pc = "done"
  /\ ~env.success
  /\ "getCoverageTable" \in faults
  /\ "checks.create" \in Calls(log)
  /\ "checks.create" \notin faults
  /\ failed

\* C5's other cases: a failing run whose comment was posted, and one whose
\* check creation and comment deletion both failed.
C5_WitnessPosted ==
  /\ pc = "done"
  /\ ~env.success
  /\ "createComment" \in Calls(log)
  /\ faults = {}
  /\ failed

\* C6 (as claimed): a run in which the test-runner subprocess fails, a
\* network call fails or GITHUB_TOKEN is not set ends marked failed,
\* whatever results.success is.
C6_EveryCollaboratorFailureFails ==
  (pc = "done" /\ faults \cap (Network \cup {"exec", "token"}) # {}) => failed

\* C6 (amended): a run in which a network call fails or GITHUB_TOKEN is not
\* set ends marked failed, whatever results.success is; a failure of the
\* test-runner subprocess is only logged, and a run in which nothing else
\* fails ends marked failed exactly when results.success is false.
C6_NetworkAndTokenFailuresFail ==
  /\ (pc = "done" /\ faults \cap (Network \cup {"token"}) # {}) => failed
  /\ (pc = "done" /\ faults = {"exec"}) => (failed <=> ~env.success)

\* C6's cases: a successful test run whose check creation failed, and a
\* failed subprocess with results.success true.
C6_Witness ==
  /\ pc = "done"
  /\ env.success
  /\ "checks.create" \in faults
  /\ "exec" \notin faults
  /\ failed

C6_WitnessExec ==
  /\ pc = "done"
  /\ env.success
  /\ faults = {"exec"}
  /\ "createComment" \in Calls(log)
  /\ ~failed

\* C7 (as claimed): createComment is called only after listComments has
\* resolved and every deleteComment request has settled; by then a delete
\* request has been issued for every comment of the pull request written by
\* github-actions[bot] whose body starts with the coverage header, and for
\* no other comment; when listing fails no comment is posted.
C7_DeleteAllPreviousThenPost ==
  /\ "createComment" \in Calls(log) =>
       /\ "listComments" \in Calls(log)
       /\ Position(log, "listComments") < Position(log, "createComment")
       /\ "listComments" \notin faults
       /\ inflight = {}
       /\ DeletedIds =
            {prComments[k].id :
               k \in {h \in 1..Len(prComments) : IsPreviousCoverageComment(prComments[h])}}
  /\ "listComments" \in faults => "createComment" \notin Calls(log)

\* C7 for the comments listComments answers: the first PER_PAGE comments of
\* the pull request.
C7_DeleteListedThenPost ==
  /\ "createComment" \in Calls(log) =>
       /\ "listComments" \in Calls(log)
       /\ Position(log, "listComments") < Position(log, "createComment")
       /\ "listComments" \notin faults
       /\ inflight = {}
       /\ DeletedIds =
            {prComments[k].id :
               k \in {h \in 1..Min(PER_PAGE, Len(prComments)) :
                        IsPreviousCoverageComment(prComments[h])}}
  /\ "listComments" \in faults => "createComment" \notin Calls(log)

C7_Witness ==
  /\ pc = "done"
  /\ "createComment" \in Calls(log)
  /\ Cardinality(DeletedIds) >= 2
  /\ "deleteComment" \in faults
  /\ Len(prComments) > Cardinality(DeletedIds)

\* C8: when the results carry no coverage map, or one with no files,
\* getCoverageTable returns the empty string without raising and run()
\* makes no listComments, deleteComment or createComment call; the run ends
\* marked failed only if results.success is false or checks.create failed.
C8_MissingCoverageSkipsComment ==
  (MapMissing /\ "getCoverageTable" \in Calls(log)) =>
    /\ getCoverageTable(env, rootPath \o "/").threw = FALSE
    /\ getCoverageTable(env, rootPath \o "/").value = ""
    /\ "getCoverageTable" \notin faults
    /\ Calls(log) \cap {"listComments", "deleteComment", "createComment"} = {}
    /\ pc = "done"
    /\ failed <=> (~env.success \/ "checks.create" \in faults)

\* C8's case: a pull request run with coverage comments enabled, a coverage
\* map without files and passing tests ends without comment calls and not
\* marked failed.
C8_Witness ==
  /\ pc = "done"
  /\ env.coverageMap.present
  /\ MapMissing
  /\ "getCoverageTable" \in Calls(log)
  /\ env.success
  /\ ~failed

====
